---- MODULE Spec2Model ----
(***************************************************************************)
(* Model of src-tauri/src/pdf_reader.rs: parse_schedule_text and the       *)
(* functions it calls.                                                     *)
(*                                                                         *)
(* A Rust &str is modelled as the sequence of its Unicode code points.     *)
(* Byte offsets (str::len, str::find, slicing) are computed from the UTF-8 *)
(* width of every code point, so that an offset that falls inside a        *)
(* character, or a slice whose start exceeds its end, is visible as the    *)
(* panic the Rust build produces.                                          *)
(***************************************************************************)
EXTENDS Integers, Sequences, FiniteSets, TLC

VARIABLES lines, pc, i, student_name, student_id, semester, courses,
          current_section, courses_in_section

vars == <<lines, pc, i, student_name, student_id, semester, courses,
          current_section, courses_in_section>>

(***************************************************************************)
(* String literals of the source, as code points.                          *)
(***************************************************************************)
\* "U+5B66 U+5E74 U+7B2C" (xue nian di)
S_XueNianDi == <<23398, 24180, 31532>>
\* "U+5B66 U+671F" (xue qi, semester)
S_XueQi == <<23398, 26399>>
\* "U+8BFE U+8868" (ke biao, schedule-of)
S_KeBiao == <<35838, 34920>>
\* "U+5B66 U+53F7" (xue hao, student id)
S_XueHao == <<23398, 21495>>
\* xue hao + full-width colon U+FF1A
S_XueHaoFull == <<23398, 21495, 65306>>
\* xue hao + ':'
S_XueHaoHalf == <<23398, 21495, 58>>
\* the weekday tokens, Monday to Sunday (xing qi yi .. xing qi ri)
days == << <<26143, 26399, 19968>>, <<26143, 26399, 20108>>,
           <<26143, 26399, 19977>>, <<26143, 26399, 22235>>,
           <<26143, 26399, 20116>>, <<26143, 26399, 20845>>,
           <<26143, 26399, 26085>> >>
\* "other courses" (qi ta ke cheng)
S_Other == <<20854, 20182, 35838, 31243>>
\* "print time" (da yin shi jian)
S_PrintTime == <<25171, 21360, 26102, 38388>>
\* "morning" (shang wu), "afternoon" (xia wu), "evening" (wan shang)
S_Morning == <<19978, 21320>>
S_Afternoon == <<19979, 21320>>
S_Evening == <<26202, 19978>>
\* "time segment" (shi jian duan)
S_TimeSeg == <<26102, 38388, 27573>>
\* the two course-leading glyphs U+2605 (star) and U+25B2 (triangle)
S_Star == <<9733>>
S_Tri == <<9650>>
\* ": " + "U+7406 U+8BBA" (li lun, theory)
S_Theory == <<58, 32, 29702, 35770>>
\* the period-unit glyph U+8282 (jie), and jie + ')'
S_Jie == <<33410>>
S_JieParen == <<33410, 41>>
\* "U+6559 U+5E08" (jiao shi, teacher) + ':' and "U+573A U+5730" (chang di, venue) + ':'
S_Teacher == <<25945, 24072, 58>>
S_Location == <<22330, 22320, 58>>

(***************************************************************************)
(* Characters.                                                             *)
(***************************************************************************)
\* char::len_utf8
Utf8Len(c) == IF c < 128 THEN 1 ELSE IF c < 2048 THEN 2 ELSE IF c < 65536 THEN 3 ELSE 4

\* char::is_numeric: the characters of general category Nd, Nl or No
\* (Unicode 17.0, 1924 code points), as ranges of code points.
\* the ranges <<first, last>> of numeric characters in U+0080..U+2FFF
NumericBelow3000 ==
    {<<178, 179>>, <<185, 185>>, <<188, 190>>, <<1632, 1641>>, <<1776, 1785>>,
     <<1984, 1993>>, <<2406, 2415>>, <<2534, 2543>>, <<2548, 2553>>, <<2662, 2671>>,
     <<2790, 2799>>, <<2918, 2927>>, <<2930, 2935>>, <<3046, 3058>>, <<3174, 3183>>,
     <<3192, 3198>>, <<3302, 3311>>, <<3416, 3422>>, <<3430, 3448>>, <<3558, 3567>>,
     <<3664, 3673>>, <<3792, 3801>>, <<3872, 3891>>, <<4160, 4169>>, <<4240, 4249>>,
     <<4969, 4988>>, <<5870, 5872>>, <<6112, 6121>>, <<6128, 6137>>, <<6160, 6169>>,
     <<6470, 6479>>, <<6608, 6618>>, <<6784, 6793>>, <<6800, 6809>>, <<6992, 7001>>,
     <<7088, 7097>>, <<7232, 7241>>, <<7248, 7257>>, <<8304, 8304>>, <<8308, 8313>>,
     <<8320, 8329>>, <<8528, 8578>>, <<8581, 8585>>, <<9312, 9371>>, <<9450, 9471>>,
     <<10102, 10131>>, <<11517, 11517>>}
\* the ranges <<first, last>> of numeric characters in U+3000..U+FFFF
NumericBmpFrom3000 ==
    {<<12295, 12295>>, <<12321, 12329>>, <<12344, 12346>>, <<12690, 12693>>,
     <<12832, 12841>>, <<12872, 12879>>, <<12881, 12895>>, <<12928, 12937>>,
     <<12977, 12991>>, <<42528, 42537>>, <<42726, 42735>>, <<43056, 43061>>,
     <<43216, 43225>>, <<43264, 43273>>, <<43472, 43481>>, <<43504, 43513>>,
     <<43600, 43609>>, <<44016, 44025>>, <<65296, 65305>>}
\* the ranges <<first, last>> of numeric characters in U+10000 and above
NumericAstral ==
    {<<65799, 65843>>, <<65856, 65912>>, <<65930, 65931>>, <<66273, 66299>>,
     <<66336, 66339>>, <<66369, 66369>>, <<66378, 66378>>, <<66513, 66517>>,
     <<66720, 66729>>, <<67672, 67679>>, <<67705, 67711>>, <<67751, 67759>>,
     <<67835, 67839>>, <<67862, 67867>>, <<68028, 68029>>, <<68032, 68047>>,
     <<68050, 68095>>, <<68160, 68168>>, <<68221, 68222>>, <<68253, 68255>>,
     <<68331, 68335>>, <<68440, 68447>>, <<68472, 68479>>, <<68521, 68527>>,
     <<68858, 68863>>, <<68912, 68921>>, <<68928, 68937>>, <<69216, 69246>>,
     <<69405, 69414>>, <<69457, 69460>>, <<69573, 69579>>, <<69714, 69743>>,
     <<69872, 69881>>, <<69942, 69951>>, <<70096, 70105>>, <<70113, 70132>>,
     <<70384, 70393>>, <<70736, 70745>>, <<70864, 70873>>, <<71248, 71257>>,
     <<71360, 71369>>, <<71376, 71395>>, <<71472, 71483>>, <<71904, 71922>>,
     <<72016, 72025>>, <<72688, 72697>>, <<72784, 72812>>, <<73040, 73049>>,
     <<73120, 73129>>, <<73184, 73193>>, <<73552, 73561>>, <<73664, 73684>>,
     <<74752, 74862>>, <<90416, 90425>>, <<92768, 92777>>, <<92864, 92873>>,
     <<93008, 93017>>, <<93019, 93025>>, <<93552, 93561>>, <<93824, 93846>>,
     <<94196, 94198>>, <<118000, 118009>>, <<119488, 119507>>, <<119520, 119539>>,
     <<119648, 119672>>, <<120782, 120831>>, <<123200, 123209>>, <<123632, 123641>>,
     <<124144, 124153>>, <<124401, 124410>>, <<125127, 125135>>, <<125264, 125273>>,
     <<126065, 126123>>, <<126125, 126127>>, <<126129, 126132>>, <<126209, 126253>>,
     <<126255, 126269>>, <<127232, 127244>>, <<130032, 130041>>}
\* c lies in one of the ranges of rs
InRanges(c, rs) == \E r \in rs : c >= r[1] /\ c <= r[2]
IsNumeric(c) ==
    IF c < 128 THEN c \in 48..57
    ELSE IF c < 12288 THEN InRanges(c, NumericBelow3000)
    ELSE IF c < 65536 THEN InRanges(c, NumericBmpFrom3000)
    ELSE InRanges(c, NumericAstral)

\* char::is_whitespace (the White_Space property), as str::trim uses it
IsWhitespace(c) ==
    \/ c \in 9..13
    \/ c \in {32, 133, 160, 5760, 8232, 8233, 8239, 8287, 12288}
    \/ c \in 8192..8202

is_chinese_char(c) == c \in 19968..40959

(***************************************************************************)
(* Strings: byte lengths, searching, slicing.                              *)
(***************************************************************************)
Min(S) == CHOOSE x \in S : \A y \in S : x <= y

RECURSIVE ByteLen(_)
\* str::len: the length in bytes
ByteLen(s) == IF s = <<>> THEN 0 ELSE Utf8Len(Head(s)) + ByteLen(Tail(s))

\* the byte offset at which the k-th character (1-based) starts
ByteOffset(s, k) == ByteLen(SubSeq(s, 1, k - 1))

\* str::is_char_boundary
IsCharBoundary(s, b) == \E k \in 0..Len(s) : ByteLen(SubSeq(s, 1, k)) = b

\* the number of characters before byte offset b, a character boundary
CharsBefore(s, b) == CHOOSE k \in 0..Len(s) : ByteLen(SubSeq(s, 1, k)) = b

\* &s[b..]
SliceFrom(s, b) == SubSeq(s, CharsBefore(s, b) + 1, Len(s))

\* &s[..b]
SliceTo(s, b) == SubSeq(s, 1, CharsBefore(s, b))

\* &s[a..b], for a <= b
Slice(s, a, b) == SubSeq(s, CharsBefore(s, a) + 1, CharsBefore(s, b))

\* the 1-based position of the first occurrence of pat in s, 0 when none
FindPos(s, pat) ==
    LET hits == {k \in 1..(Len(s) - Len(pat) + 1) : SubSeq(s, k, k + Len(pat) - 1) = pat}
    IN IF hits = {} THEN 0 ELSE Min(hits)

\* str::find with a string or char pattern: Some(byte offset), None as -1
Find(s, pat) ==
    LET k == FindPos(s, pat) IN IF k = 0 THEN -1 ELSE ByteOffset(s, k)

\* str::contains
Contains(s, pat) == FindPos(s, pat) # 0

\* str::find(char::is_numeric)
FindNumeric(s) ==
    LET hits == {k \in 1..Len(s) : IsNumeric(s[k])}
    IN IF hits = {} THEN -1 ELSE ByteOffset(s, Min(hits))

\* str::find(|c| c == full-width colon || c == ':')
FindColon(s) ==
    LET hits == {k \in 1..Len(s) : s[k] = 65306 \/ s[k] = 58}
    IN IF hits = {} THEN -1 ELSE ByteOffset(s, Min(hits))

RECURSIVE TrimStart(_)
TrimStart(s) ==
    IF s # <<>> /\ IsWhitespace(Head(s)) THEN TrimStart(Tail(s)) ELSE s

RECURSIVE TrimEnd(_)
TrimEnd(s) ==
    IF s # <<>> /\ IsWhitespace(s[Len(s)]) THEN TrimEnd(SubSeq(s, 1, Len(s) - 1)) ELSE s

\* str::trim
Trim(s) == TrimEnd(TrimStart(s))

\* str::replace(glyph, ""), for a one-character pattern
RemoveGlyph(s, g) == SelectSeq(s, LAMBDA c : c # g[1])

RECURSIVE TakeNumeric(_)
\* chars().take_while(|c| c.is_numeric()).collect()
TakeNumeric(s) ==
    IF s # <<>> /\ IsNumeric(Head(s)) THEN <<Head(s)>> \o TakeNumeric(Tail(s)) ELSE <<>>

RECURSIVE SkipNonChinese(_)
\* chars().skip_while(|c| !is_chinese_char(*c))
SkipNonChinese(s) ==
    IF s # <<>> /\ ~is_chinese_char(Head(s)) THEN SkipNonChinese(Tail(s)) ELSE s

RECURSIVE TakeChinese(_)
\* .take_while(|c| is_chinese_char(*c)).collect()
TakeChinese(s) ==
    IF s # <<>> /\ is_chinese_char(Head(s)) THEN <<Head(s)>> \o TakeChinese(Tail(s)) ELSE <<>>

RECURSIVE DigitsValue(_, _)
\* the value of a run of ASCII digits, accumulated left to right
DigitsValue(s, acc) ==
    IF s = <<>> THEN acc ELSE DigitsValue(Tail(s), acc * 10 + (Head(s) - 48))

\* str::parse::<u8>(): an optional '+', then one or more ASCII digits, value
\* at most 255.  Ok(v) is v, Err is -1.
ParseU8(s) ==
    LET body == IF s # <<>> /\ s[1] = 43 THEN Tail(s) ELSE s
    IN IF body = <<>> THEN -1
       ELSE IF \E k \in 1..Len(body) : body[k] \notin 48..57 THEN -1
       ELSE IF DigitsValue(body, 0) > 255 THEN -1
       ELSE DigitsValue(body, 0)

RECURSIVE JoinLines(_)
\* [&str]::join("\n")
JoinLines(ls) ==
    IF ls = <<>> THEN <<>>
    ELSE IF Len(ls) = 1 THEN ls[1]
    ELSE ls[1] \o <<10>> \o JoinLines(Tail(ls))

\* a line of str::lines() that ended in "\n": a "\r" before it is not part of the line
StripCr(s) == IF s # <<>> /\ s[Len(s)] = 13 THEN SubSeq(s, 1, Len(s) - 1) ELSE s

RECURSIVE TextLines(_)
\* str::lines(): split at "\n"; a final empty piece is not a line
TextLines(t) ==
    IF t = <<>> THEN <<>>
    ELSE LET k == FindPos(t, <<10>>)
         IN IF k = 0 THEN <<t>>
            ELSE <<StripCr(SubSeq(t, 1, k - 1))>> \o TextLines(SubSeq(t, k + 1, Len(t)))

(***************************************************************************)
(* extract_semester                                                        *)
(***************************************************************************)
\* extract_semester looking for xue qi from the start of the line
ExtractSemesterAnyXueQi(line) ==
    LET start == FindNumeric(line)
        end_pos == Find(line, S_XueQi)
    IN IF start < 0 \/ end_pos < start THEN <<>>
       ELSE Slice(line, start, end_pos + ByteLen(S_XueQi))

extract_semester(line) ==
    LET start == FindNumeric(line)
    IN IF start < 0 THEN <<>>
       ELSE LET rest == SliceFrom(line, start)
                end_pos == Find(rest, S_XueQi)
            IN IF end_pos < 0 THEN <<>>
               ELSE SliceTo(rest, end_pos + ByteLen(S_XueQi))

(***************************************************************************)
(* extract_student_info                                                    *)
(***************************************************************************)
\* num_start of extract_student_info: the offset the id is read from, -1
\* when the label or its colon is missing.  The colon is taken to be 3 bytes
\* wide whichever colon was found.
IdNumStart(line) ==
    LET id_pos == Find(line, S_XueHao)
    IN IF id_pos < 0 THEN -1
       ELSE LET colon_pos == FindColon(SliceFrom(line, id_pos))
            IN IF colon_pos < 0 THEN -1 ELSE id_pos + colon_pos + 3

\* &line[num_start..] panics when num_start is inside a character
StudentInfoPanics(line) ==
    LET num_start == IdNumStart(line)
    IN /\ num_start >= 0
       /\ num_start < ByteLen(line)
       /\ ~IsCharBoundary(line, num_start)

\* the id part of extract_student_info
StudentId(line) ==
    LET num_start == IdNumStart(line)
    IN IF num_start >= 0 /\ num_start < ByteLen(line)
          THEN TakeNumeric(SliceFrom(line, num_start))
          ELSE <<>>

\* the name part of extract_student_info
StudentName(line) ==
    LET ke_pos == Find(line, S_KeBiao)
    IN IF ke_pos < 0 THEN <<>>
       ELSE TakeChinese(SkipNonChinese(SliceTo(line, ke_pos)))

\* Option<(String, String)>, or the panic of the slice
extract_student_info(line) ==
    IF StudentInfoPanics(line)
       THEN [panic |-> TRUE, some |-> FALSE, name |-> <<>>, id |-> <<>>]
       ELSE [panic |-> FALSE,
             some  |-> StudentName(line) # <<>> \/ StudentId(line) # <<>>,
             name  |-> StudentName(line),
             id    |-> StudentId(line)]

(***************************************************************************)
(* extract_course_from_full_text                                           *)
(***************************************************************************)
\* the text of info up to its first '/', or all of it, trimmed
UpToSlash(s) ==
    LET slash_pos == Find(s, <<47>>)
    IN Trim(IF slash_pos >= 0 THEN SliceTo(s, slash_pos) ELSE s)

\* a metadata line has both '(' and jie + ')'
HasTimeSegment(info) == Find(info, <<40>>) >= 0 /\ Find(info, S_JieParen) >= 0

\* &info[time_start + 1..time_end + 3] panics when the first '(' lies after
\* the first jie + ')'
TimeSlicePanics(info) ==
    /\ HasTimeSegment(info)
    /\ Find(info, <<40>>) + 1 > Find(info, S_JieParen) + ByteLen(S_Jie)

\* time_str cut before the period-unit glyph
TimeStrNoGlyph(info) ==
    Slice(info, Find(info, <<40>>) + 1, Find(info, S_JieParen))

\* time_str: from after '(' to the period-unit glyph, the glyph included
TimeStr(info) ==
    Slice(info, Find(info, <<40>>) + 1, Find(info, S_JieParen) + ByteLen(S_Jie))

\* the time-slot part, writing the bounds only when both numbers parse
WithTimeBoth(course, info) ==
    IF ~HasTimeSegment(info) THEN course
    ELSE LET time_str == TimeStr(info)
             jie_end  == Find(info, S_JieParen) + ByteLen(S_JieParen)
             dash_pos == Find(time_str, <<45>>)
             start    == IF dash_pos < 0 THEN -1 ELSE ParseU8(SliceTo(time_str, dash_pos))
             end_part == IF dash_pos < 0 THEN <<>> ELSE SliceFrom(time_str, dash_pos + 1)
             num_end  == Find(end_part, S_Jie)
             end      == IF num_end < 0 THEN -1 ELSE ParseU8(SliceTo(end_part, num_end))
         IN [course EXCEPT
               !.time_slot = time_str,
               !.start_section = IF start >= 0 /\ end >= 0 THEN start ELSE @,
               !.end_section = IF start >= 0 /\ end >= 0 THEN end ELSE @,
               !.weeks = IF jie_end < ByteLen(info)
                            THEN UpToSlash(SliceFrom(info, jie_end))
                            ELSE @]

\* the time-slot part of the loop body: time_slot, start_section,
\* end_section, weeks
WithTime(course, info) ==
    IF ~HasTimeSegment(info) THEN course
    ELSE LET time_str == TimeStr(info)
             jie_end  == Find(info, S_JieParen) + ByteLen(S_JieParen)
             dash_pos == Find(time_str, <<45>>)
             start    == IF dash_pos < 0 THEN -1 ELSE ParseU8(SliceTo(time_str, dash_pos))
             end_part == IF dash_pos < 0 THEN <<>> ELSE SliceFrom(time_str, dash_pos + 1)
             num_end  == Find(end_part, S_Jie)
             end      == IF num_end < 0 THEN -1 ELSE ParseU8(SliceTo(end_part, num_end))
         IN [course EXCEPT
               !.time_slot = time_str,
               !.start_section = IF start >= 0 THEN start ELSE @,
               !.end_section = IF end >= 0 THEN end ELSE @,
               !.weeks = IF jie_end < ByteLen(info)
                            THEN UpToSlash(SliceFrom(info, jie_end))
                            ELSE @]

\* the teacher part, writing the slot only while it is empty
WithTeacherOnce(course, info) ==
    LET teacher_pos == Find(info, S_Teacher)
    IN IF teacher_pos < 0 \/ course.teacher # <<>> THEN course
       ELSE [course EXCEPT
               !.teacher = UpToSlash(SliceFrom(info, teacher_pos + ByteLen(S_Teacher)))]

\* the teacher part of the loop body
WithTeacher(course, info) ==
    LET teacher_pos == Find(info, S_Teacher)
    IN IF teacher_pos < 0 THEN course
       ELSE [course EXCEPT
               !.teacher = UpToSlash(SliceFrom(info, teacher_pos + ByteLen(S_Teacher)))]

\* the location part of the loop body
WithLocation(course, info) ==
    LET location_pos == Find(info, S_Location)
    IN IF location_pos < 0 THEN course
       ELSE [course EXCEPT
               !.location = UpToSlash(SliceFrom(info, location_pos + ByteLen(S_Location)))]

RECURSIVE ApplyInfoLines(_, _)
\* for line in lines.iter().skip(1): the three extractions, line after line
ApplyInfoLines(course, ls) ==
    IF ls = <<>> THEN course
    ELSE LET info == Trim(Head(ls))
         IN ApplyInfoLines(WithLocation(WithTeacher(WithTime(course, info), info), info),
                           Tail(ls))

\* lines[0] without both glyphs, trimmed
CourseName(first) == Trim(RemoveGlyph(RemoveGlyph(first, S_Star), S_Tri))

\* the Course as constructed before the metadata lines are read
NewCourse(name, day, section) ==
    [name |-> name, teacher |-> <<>>, location |-> <<>>, time_slot |-> <<>>,
     weeks |-> <<>>, day_of_week |-> day, start_section |-> section,
     end_section |-> section]

\* Option<Course>, or the panic of the time slice
extract_course_from_full_text(text, day, section) ==
    LET ls == TextLines(text)
    IN IF ls = <<>> \/ CourseName(ls[1]) = <<>>
          THEN [panic |-> FALSE, some |-> FALSE]
       ELSE IF \E k \in 2..Len(ls) : TimeSlicePanics(Trim(ls[k]))
          THEN [panic |-> TRUE, some |-> FALSE]
       ELSE [panic |-> FALSE, some |-> TRUE,
             course |-> ApplyInfoLines(NewCourse(CourseName(ls[1]), day, section), Tail(ls))]

(***************************************************************************)
(* process_section_courses                                                 *)
(***************************************************************************)
\* a block panics when it has a name and one of its lines panics
SectionPanics(courses_data, section) ==
    \E k \in 1..Len(courses_data) :
        extract_course_from_full_text(courses_data[k][2], courses_data[k][1], section).panic

RECURSIVE ProcessUntilNone(_, _, _)
\* process_section_courses giving up at the first block without a Course
ProcessUntilNone(courses_data, section, cs) ==
    IF courses_data = <<>> THEN cs
    ELSE LET r == extract_course_from_full_text(courses_data[1][2], courses_data[1][1], section)
         IN IF r.some
               THEN ProcessUntilNone(Tail(courses_data), section, Append(cs, r.course))
               ELSE cs

RECURSIVE process_section_courses(_, _, _)
\* the courses vector after pushing the Course of every block that has one
process_section_courses(courses_data, section, cs) ==
    IF courses_data = <<>> THEN cs
    ELSE LET r == extract_course_from_full_text(courses_data[1][2], courses_data[1][1], section)
         IN process_section_courses(Tail(courses_data), section,
                                    IF r.some THEN Append(cs, r.course) ELSE cs)

(***************************************************************************)
(* Line classification of the segmenter.                                   *)
(***************************************************************************)
\* blank and special lines, skipped while scanning
IsNoise(line) ==
    \/ line = <<>>
    \/ Contains(line, S_Other)
    \/ Contains(line, S_PrintTime)
    \/ Contains(line, S_Morning)
    \/ Contains(line, S_Afternoon)
    \/ Contains(line, S_Evening)
    \/ Contains(line, S_TimeSeg)

\* line.len() <= 3 && line.chars().all(|c| c.is_numeric())
IsMarkerShape(line) ==
    ByteLen(line) <= 3 /\ \A k \in 1..Len(line) : IsNumeric(line[k])

\* a line with a course-leading glyph that is not a theory-hour annotation
IsCourseStart(line) ==
    (Contains(line, S_Star) \/ Contains(line, S_Tri)) /\ ~Contains(line, S_Theory)

\* the lines that end the collection of a block
IsTerminator(next) ==
    \/ Contains(next, S_Star)
    \/ Contains(next, S_Tri)
    \/ IsMarkerShape(next)
    \/ Contains(next, S_Morning)
    \/ Contains(next, S_Afternoon)
    \/ Contains(next, S_Evening)

RECURSIVE CollectBlockPastTerminator(_, _, _)
\* the inner while loop leaving the cursor after the terminator
CollectBlockPastTerminator(ls, course_lines, j) ==
    IF j >= Len(ls) THEN [course_lines |-> course_lines, j |-> j]
    ELSE LET next == Trim(ls[j + 1])
         IN IF next = <<>> THEN CollectBlockPastTerminator(ls, course_lines, j + 1)
            ELSE IF IsTerminator(next) THEN [course_lines |-> course_lines, j |-> j + 1]
            ELSE CollectBlockPastTerminator(ls, Append(course_lines, next), j + 1)

RECURSIVE CollectBlock(_, _, _)
\* the inner while loop: course_lines and j when it ends
CollectBlock(ls, course_lines, j) ==
    IF j >= Len(ls) THEN [course_lines |-> course_lines, j |-> j]
    ELSE LET next == Trim(ls[j + 1])
         IN IF next = <<>> THEN CollectBlock(ls, course_lines, j + 1)
            ELSE IF IsTerminator(next) THEN [course_lines |-> course_lines, j |-> j]
            ELSE CollectBlock(ls, Append(course_lines, next), j + 1)

\* day_num with the wrong modulus
DayNumMod8(n) == (n % 8) + 1

\* day_num: the position of the block among those of the section
DayNum(n) == (n % 7) + 1

\* the section after a marker-shaped line, without the range check
NextSectionAnyValue(line, section) ==
    LET v == ParseU8(line)
    IN IF v >= 0 THEN v ELSE section

\* the section in effect after a marker-shaped line
NextSection(line, section) ==
    LET v == ParseU8(line)
    IN IF v >= 1 /\ v <= 12 THEN v ELSE section

(***************************************************************************)
(* The header: the first line that trimmed equals Monday's token, and the  *)
(* number of weekday tokens that follow in order.                          *)
(***************************************************************************)
\* header_idx, 0-based; -1 for None
HeaderIdx(ls) ==
    LET hits == {k \in 1..Len(ls) : Trim(ls[k]) = days[1]}
    IN IF hits = {} THEN -1 ELSE Min(hits) - 1

\* day_count stopping after Monday's token
DayCountOne(ls, start_idx, k) ==
    IF start_idx < Len(ls) /\ Trim(ls[start_idx + 1]) = days[1] THEN k + 1 ELSE k

RECURSIVE DayCount(_, _, _)
\* day_count: the loop over days breaks at the first mismatch
DayCount(ls, start_idx, k) ==
    IF k < Len(days) /\ start_idx + k < Len(ls) /\ Trim(ls[start_idx + k + 1]) = days[k + 1]
       THEN DayCount(ls, start_idx, k + 1)
       ELSE k

(***************************************************************************)
(* Inputs: the lines of the text, text.lines().  Each family is a set of   *)
(* line sequences built from concrete lines.                               *)
(***************************************************************************)
MaxDayLines == 8
MaxSegLines == 3
MaxMetaLines == 3
MaxInfoLines == 2
MaxFreeLines == 3

SeqsUpTo(V, n) == UNION {[1..k -> V] : k \in 0..n}

\* weekday header lines
L_Mon == days[1]
L_Tue == days[2]
\* " " + Monday + " ", and "x" + Monday
L_MonPad == <<32>> \o days[1] \o <<32>>
L_NotMon == <<120>> \o days[1]
\* star + U+9AD8 (gao), triangle + U+6570 (shu) + " "
L_Course == <<9733, 39640>>
L_CourseB == <<9650, 25968, 32>>
\* a star alone: a block with an empty name
L_NoName == <<9733>>
\* star + "A: " + li lun: a theory-hour annotation
L_TheoryNote == <<9733, 65>> \o S_Theory
\* period markers "1", "2", "13", the circled digit one U+2460, and "12" + jie
L_One == <<49>>
L_Two == <<50>>
L_Thirteen == <<49, 51>>
L_Circled == <<9312>>
L_TwelveJie == <<49, 50, 33410>>
\* jie + ")(" : the first '(' after the first jie + ')'
L_ParenAfter == <<33410, 41, 40>>

\* "(a-b" + jie + ")" + W + "/" + teacher label + " " + T + "/" + venue label + " " + L
FormLine(a, b, W, T, L) ==
    <<40>> \o a \o <<45>> \o b \o S_JieParen \o W \o <<47>> \o S_Teacher \o <<32>> \o T
           \o <<47>> \o S_Location \o <<32>> \o L

\* "1", "12", "256"
FormNums == {<<49>>, <<49, 50>>, <<50, 53, 54>>}
\* "6" + U+5468 (zhou, week), and the same between spaces
FormWeeks == {<<54, 21608>>, <<32, 54, 21608, 32>>}
\* U+5F20 (zhang), and zhang + " "
FormTeachers == {<<24352>>, <<24352, 32>>}
\* "A1", and "B" + " "
FormLocations == {<<65, 49>>, <<66, 32>>}

FormLines ==
    {FormLine(a, b, W, T, L) : a \in FormNums, b \in FormNums, W \in FormWeeks,
                               T \in FormTeachers, L \in FormLocations}

\* "(" + X + jie + ")" + "6" + zhou + "/" + teacher label + zhang
SlotLine(X) == <<40>> \o X \o S_JieParen \o <<54, 21608, 47>> \o S_Teacher \o <<24352>>

\* "3", "3-x", "x-4", "3-", "-4", "x-y", "3-4", "300-4", "13-200", ""
SlotTexts ==
    {<<51>>, <<51, 45, 120>>, <<120, 45, 52>>, <<51, 45>>, <<45, 52>>,
     <<120, 45, 121>>, <<51, 45, 52>>, <<51, 48, 48, 45, 52>>,
     <<49, 51, 45, 50, 48, 48>>, <<>>}

SlotLines == {SlotLine(X) : X \in SlotTexts}

\* metadata lines of a block that carry the same fields again
L_Info1 == FormLine(<<49>>, <<50>>, <<54, 21608>>, <<24352>>, <<65, 49>>)
\* "(3-4" + jie + ")8" + zhou
L_Info2 == <<40, 51, 45, 52>> \o S_JieParen \o <<56, 21608>>
\* "(5" + jie + ")"
L_Info3 == <<40, 53>> \o S_JieParen
\* teacher label + " " + U+674E (li) + "/" + venue label + " B"
L_Info4 == S_Teacher \o <<32, 26446, 47>> \o S_Location \o <<32, 66>>
\* venue label + "C"
L_Info5 == S_Location \o <<67>>
\* "x"
L_Filler == <<120>>

InfoVocab == {L_Info1, L_Info2, L_Info3, L_Info4, L_Info5, L_Filler, L_ParenAfter}

\* "25" + xue nian di + "1" + xue qi + "x"
L_Sem1 == <<50, 53>> \o S_XueNianDi \o <<49>> \o S_XueQi \o <<120>>
\* "x" + xue nian di + "2" + xue qi
L_Sem2 == <<120>> \o S_XueNianDi \o <<50>> \o S_XueQi
\* xue nian di + xue qi: no digit
L_Sem3 == S_XueNianDi \o S_XueQi
\* zhang + ke biao
L_Name == <<24352>> \o S_KeBiao
\* ke biao + " " + xue hao + full-width colon + "12"
L_IdOnly == S_KeBiao \o <<32>> \o S_XueHaoFull \o <<49, 50>>
\* li + ke biao + " " + xue hao + full-width colon
L_NameNoId == <<26446>> \o S_KeBiao \o <<32>> \o S_XueHaoFull
\* zhang + ke biao + " " + xue hao + full-width colon + "34"
L_NameId == <<24352>> \o S_KeBiao \o <<32>> \o S_XueHaoFull \o <<51, 52>>
\* xue hao + ":" + zhang
L_HalfCjk == S_XueHaoHalf \o <<24352>>
\* xue hao + ":x34"
L_HalfDigits == S_XueHaoHalf \o <<120, 51, 52>>

MetaVocab ==
    {L_Sem1, L_Sem2, L_Sem3, L_Name, L_IdOnly, L_NameNoId, L_NameId, L_HalfCjk,
     L_HalfDigits, <<>>}

SegVocab ==
    {L_Tue, L_One, L_Thirteen, L_Circled, L_TwelveJie, L_Course, L_CourseB, L_NoName,
     L_TheoryNote, L_Info1, <<>>, S_Morning, L_ParenAfter}

FreeVocab == {L_MonPad, L_Tue, L_NotMon, L_Course, L_One, L_NameId, L_Sem1}

\* N + ke biao + " " + xue hao + colon + D
IdLine(N, colon, D) == N \o S_KeBiao \o <<32>> \o S_XueHao \o <<colon>> \o D
\* N + ke biao: no student-id label
NameLine(N) == N \o S_KeBiao
\* zhang, and zhang + U+4E09 (san)
IdNames == {<<24352>>, <<24352, 19977>>}
\* the full-width colon U+FF1A and ':'
IdColons == {65306, 58}
\* "1", "12", "123", "2527"
IdDigits == {<<49>>, <<49, 50>>, <<49, 50, 51>>, <<50, 53, 50, 55>>}
\* one line with a name and an id, or with a name alone
IdInputs ==
    {<<IdLine(N, c, D)>> : N \in IdNames, c \in IdColons, D \in IdDigits}
        \cup {<<NameLine(N)>> : N \in IdNames}

\* text before the first digit: none, "x ", xue qi, xue nian di
SemBefore == {<<>>, <<120, 32>>, S_XueQi, S_XueNianDi}
\* from the first digit on: "25" + xue nian di + "1" + xue qi; "1" + xue qi;
\* the same with the full-width digits U+FF11 and U+FF12; "2" + xue nian di,
\* which has no xue qi
SemBody ==
    {<<50, 53>> \o S_XueNianDi \o <<49>> \o S_XueQi,
     <<49>> \o S_XueQi,
     <<65297>> \o S_XueNianDi \o <<65298>> \o S_XueQi,
     <<50>> \o S_XueNianDi}
\* text after: none, "x", "2" + xue qi
SemAfter == {<<>>, <<120>>, <<50>> \o S_XueQi}
\* one line around a semester, and the line without a digit
SemInputs ==
    {<<b \o m \o a>> : b \in SemBefore, m \in SemBody, a \in SemAfter}
        \cup {<<S_XueNianDi \o S_XueQi>>}

\* two circled digits, U+2460 U+2461: two numeric characters, six bytes
L_TwoCircled == <<9312, 9313>>
\* the lines that follow a first section: markers of every shape, two course
\* starts, a time-of-day label and a metadata line
MarkVocab ==
    {L_Two, L_Thirteen, L_Circled, L_TwoCircled, L_Course, L_CourseB, S_Morning, L_Info1}
\* a header, a first marker and a course start, then up to MaxSegLines lines
MarkInputs ==
    {<<L_Mon, L_One, L_Course>> \o s : s \in SeqsUpTo(MarkVocab, MaxSegLines)}

\* weekday runs: the first n tokens in order, and runs that break the order
HeadRuns ==
    {SubSeq(days, 1, n) : n \in 1..Len(days)}
        \cup {<<days[1], days[3]>>, <<days[1], days[2], days[2]>>, <<days[1], days[1]>>,
              <<days[2], days[1]>>}
\* the lines before the header: none, a course start, a marker and a course
\* start, a line that only contains Monday's token
HeadBefore == {<<>>, <<L_Course>>, <<L_One, L_Course>>, <<L_NotMon>>}
\* the lines after the run
HeadAfter == {<<>>, <<L_Course>>, <<L_Two, L_CourseB>>, <<days[1], L_Course>>}
\* a weekday run between lines that contain glyphs and numbers
HeadInputs == {b \o r \o a : b \in HeadBefore, r \in HeadRuns, a \in HeadAfter}

\* a header, up to MaxDayLines course lines and markers
DayInputs == {<<L_Mon>> \o s : s \in SeqsUpTo({L_Course, L_Two}, MaxDayLines)}
\* a header, then up to MaxSegLines lines of every kind the segmenter tells apart
SegInputs == {<<L_Mon>> \o s : s \in SeqsUpTo(SegVocab, MaxSegLines)}
\* one block of a name line and one metadata line, with and without a period marker
FormInputs ==
    {p \o <<l>> : p \in {<<L_Mon, L_Two, L_CourseB>>, <<L_Mon, L_Course>>},
                  l \in FormLines \cup SlotLines}
\* one block of a name line and up to MaxInfoLines metadata lines
InfoInputs == {<<L_Mon, L_Two, L_Course>> \o s : s \in SeqsUpTo(InfoVocab, MaxInfoLines)}
\* up to MaxMetaLines lines that carry the semester, the name or the id
MetaInputs == SeqsUpTo(MetaVocab, MaxMetaLines)
\* up to MaxFreeLines lines, the header anywhere or nowhere
FreeInputs == SeqsUpTo(FreeVocab, MaxFreeLines)

Inputs == DayInputs \cup SegInputs \cup FormInputs \cup InfoInputs \cup MetaInputs
            \cup FreeInputs \cup IdInputs \cup SemInputs \cup MarkInputs
              \cup HeadInputs

(***************************************************************************)
(* parse_schedule_text as a state machine.  pc is the position in the      *)
(* function: "meta" the first loop, "scan" the while loop, "done" after    *)
(* Ok(()) is returned, "panicked" after a panic unwound the call.          *)
(***************************************************************************)
Init ==
    /\ lines \in Inputs
    /\ pc = "meta"
    /\ i = 0
    /\ student_name = <<>>
    /\ student_id = <<>>
    /\ semester = <<>>
    /\ courses = <<>>
    /\ current_section = 0
    /\ courses_in_section = <<>>

\* the line has the student-id label with either colon
HasIdLabel(line) == Contains(line, S_XueHaoFull) \/ Contains(line, S_XueHaoHalf)

\* schedule.semester written only while it is empty
SemesterAfterOnce(line, sem) ==
    IF sem = <<>> /\ Contains(line, S_XueNianDi) /\ Contains(line, S_XueQi)
       THEN extract_semester(line) ELSE sem

\* schedule.semester after the first if of the loop body
SemesterAfter(line, sem) ==
    IF Contains(line, S_XueNianDi) /\ Contains(line, S_XueQi)
       THEN extract_semester(line) ELSE sem

\* schedule.student_name after the second if of the loop body
NameAfterKeBiao(line, name) ==
    IF Contains(line, S_KeBiao) /\ extract_student_info(line).some
       THEN extract_student_info(line).name ELSE name

\* schedule.student_name after the third if of the loop body; prev is the
\* line before, <<>> at the first line
NameAfterId(line, prev, first, name) ==
    LET info == extract_student_info(line)
        n1 == IF HasIdLabel(line) /\ info.some /\ info.name # <<>> THEN info.name ELSE name
    IN IF HasIdLabel(line) /\ ~first /\ n1 = <<>> /\ Contains(prev, S_KeBiao)
             /\ extract_student_info(prev).some
          THEN extract_student_info(prev).name
          ELSE n1

\* schedule.student_id after the third if of the loop body
IdAfter(line, id) ==
    IF HasIdLabel(line) /\ extract_student_info(line).some
       THEN extract_student_info(line).id ELSE id

\* a call of extract_student_info in the loop body panics
MetaPanics(line, prev, first, name) ==
    \/ (Contains(line, S_KeBiao) \/ HasIdLabel(line)) /\ StudentInfoPanics(line)
    \/ /\ HasIdLabel(line) /\ ~first
       /\ NameAfterId(line, <<>>, TRUE, NameAfterKeBiao(line, name)) = <<>>
       /\ Contains(prev, S_KeBiao)
       /\ StudentInfoPanics(prev)

\* one iteration of the metadata loop
MetaStep ==
    /\ pc = "meta"
    /\ i < Len(lines)
    /\ LET line == lines[i + 1]
           prev == IF i > 0 THEN lines[i] ELSE <<>>
       IN IF MetaPanics(line, prev, i = 0, student_name)
             THEN /\ pc' = "panicked"
                  /\ UNCHANGED <<i, student_name, student_id, semester>>
             ELSE /\ semester' = SemesterAfter(line, semester)
                  /\ student_name' =
                        NameAfterId(line, prev, i = 0, NameAfterKeBiao(line, student_name))
                  /\ student_id' = IdAfter(line, student_id)
                  /\ i' = i + 1
                  /\ pc' = pc
    /\ UNCHANGED <<lines, courses, current_section, courses_in_section>>

\* the header search without the early return: the scan starts at the top
\* when no header is found
LocateHeaderFromTop ==
    /\ pc = "meta"
    /\ i >= Len(lines)
    /\ LET header_idx == HeaderIdx(lines)
           day_count == IF header_idx < 0 THEN 0 ELSE DayCount(lines, header_idx, 0)
       IN pc' = "scan" /\ i' = IF header_idx < 0 THEN 0 ELSE header_idx + day_count
    /\ UNCHANGED <<lines, student_name, student_id, semester, courses, current_section,
                   courses_in_section>>

\* the header search and the count of weekday tokens, after the metadata loop
LocateHeader ==
    /\ pc = "meta"
    /\ i >= Len(lines)
    /\ LET header_idx == HeaderIdx(lines)
           day_count == IF header_idx < 0 THEN 0 ELSE DayCount(lines, header_idx, 0)
       IN IF header_idx < 0 \/ day_count = 0
             THEN pc' = "done" /\ i' = i
             ELSE pc' = "scan" /\ i' = header_idx + day_count
    /\ UNCHANGED <<lines, student_name, student_id, semester, courses, current_section,
                   courses_in_section>>

\* a blank or special line
ScanNoise ==
    /\ pc = "scan"
    /\ i < Len(lines)
    /\ IsNoise(Trim(lines[i + 1]))
    /\ i' = i + 1
    /\ UNCHANGED <<lines, pc, student_name, student_id, semester, courses,
                   current_section, courses_in_section>>

\* the marker step with the section updated before the flush
ScanMarkerUpdateFirst ==
    /\ pc = "scan"
    /\ i < Len(lines)
    /\ LET line == Trim(lines[i + 1])
           section == NextSection(line, current_section)
       IN /\ ~IsNoise(line)
          /\ IsMarkerShape(line)
          /\ IF SectionPanics(courses_in_section, section)
                THEN /\ pc' = "panicked"
                     /\ UNCHANGED <<i, courses, current_section, courses_in_section>>
                ELSE /\ courses' = process_section_courses(courses_in_section, section, courses)
                     /\ courses_in_section' = <<>>
                     /\ current_section' = section
                     /\ i' = i + 1
                     /\ pc' = pc
    /\ UNCHANGED <<lines, student_name, student_id, semester>>

\* a period-marker-shaped line: flush, clear, update the section
ScanMarker ==
    /\ pc = "scan"
    /\ i < Len(lines)
    /\ LET line == Trim(lines[i + 1])
       IN /\ ~IsNoise(line)
          /\ IsMarkerShape(line)
          /\ IF SectionPanics(courses_in_section, current_section)
                THEN /\ pc' = "panicked"
                     /\ UNCHANGED <<i, courses, current_section, courses_in_section>>
                ELSE /\ courses' =
                           process_section_courses(courses_in_section, current_section, courses)
                     /\ courses_in_section' = <<>>
                     /\ current_section' = NextSection(line, current_section)
                     /\ i' = i + 1
                     /\ pc' = pc
    /\ UNCHANGED <<lines, student_name, student_id, semester>>

\* the course-start step leaving the cursor on the start line
ScanCourseNoAdvance ==
    /\ pc = "scan"
    /\ i < Len(lines)
    /\ LET line == Trim(lines[i + 1])
           blk == CollectBlock(lines, <<line>>, i + 1)
       IN /\ ~IsNoise(line)
          /\ ~IsMarkerShape(line)
          /\ IsCourseStart(line)
          /\ courses_in_section' =
                Append(courses_in_section,
                       <<DayNum(Len(courses_in_section)), JoinLines(blk.course_lines)>>)
    /\ UNCHANGED <<lines, pc, i, student_name, student_id, semester, courses, current_section>>

\* a course-start line: collect the block and give it its day
ScanCourse ==
    /\ pc = "scan"
    /\ i < Len(lines)
    /\ LET line == Trim(lines[i + 1])
           blk == CollectBlock(lines, <<line>>, i + 1)
       IN /\ ~IsNoise(line)
          /\ ~IsMarkerShape(line)
          /\ IsCourseStart(line)
          /\ courses_in_section' =
                Append(courses_in_section,
                       <<DayNum(Len(courses_in_section)), JoinLines(blk.course_lines)>>)
          /\ i' = blk.j
    /\ UNCHANGED <<lines, pc, student_name, student_id, semester, courses, current_section>>

\* any other line
ScanFiller ==
    /\ pc = "scan"
    /\ i < Len(lines)
    /\ LET line == Trim(lines[i + 1])
       IN ~IsNoise(line) /\ ~IsMarkerShape(line) /\ ~IsCourseStart(line)
    /\ i' = i + 1
    /\ UNCHANGED <<lines, pc, student_name, student_id, semester, courses,
                   current_section, courses_in_section>>

\* the end of the while loop without the last call of process_section_courses
FinalFlushSkip ==
    /\ pc = "scan"
    /\ i >= Len(lines)
    /\ pc' = "done"
    /\ UNCHANGED <<lines, i, student_name, student_id, semester, courses, current_section,
                   courses_in_section>>

\* the end of the while loop: the blocks of the last section
FinalFlush ==
    /\ pc = "scan"
    /\ i >= Len(lines)
    /\ IF SectionPanics(courses_in_section, current_section)
          THEN pc' = "panicked" /\ courses' = courses
          ELSE /\ pc' = "done"
               /\ courses' =
                     process_section_courses(courses_in_section, current_section, courses)
    /\ UNCHANGED <<lines, i, student_name, student_id, semester, current_section,
                   courses_in_section>>

Next ==
    \/ MetaStep
    \/ LocateHeader
    \/ ScanNoise
    \/ ScanMarker
    \/ ScanCourse
    \/ ScanFiller
    \/ FinalFlush

Spec == Init /\ [][Next]_vars

\* the call has ended, by returning or by a panic
Ended == pc \in {"done", "panicked"}

\* parse_schedule_text is one sequential call, so that a step that can be
\* taken is taken: weak fairness of Next, written out with the condition
\* under which a step of Next can be taken, which is ~Ended
FairSpec == Spec /\ ([]<>Ended \/ []<><<Next>>_vars)

(***************************************************************************)
(* Properties.                                                             *)
(***************************************************************************)
Done == pc = "done"

\* the block collected last, the lines of its text, and whether the final
\* flush pushed a Course for it (then it is the last of courses)
LastBlockLines == TextLines(courses_in_section[Len(courses_in_section)][2])
LastBlockEmitted ==
    /\ pc = "done"
    /\ courses_in_section # <<>>
    /\ CourseName(LastBlockLines[1]) # <<>>
LastCourse == courses[Len(courses)]
\* the metadata lines of the last block, trimmed
LastInfos == [k \in 1..(Len(LastBlockLines) - 1) |-> Trim(LastBlockLines[k + 1])]

\* what one metadata line alone yields: bounds of -1 mean "not parsed"
FieldsOf(info) ==
    WithLocation(WithTeacher(WithTime(NewCourse(<<>>, 0, -1), info), info), info)

Max(S) == CHOOSE x \in S : \A y \in S : y <= x

\* the lines of infos that carry the time-slot segment, text after it (the
\* weeks), a parsed start, a parsed end, the teacher label, the venue label
TimeCarriers(infos) == {k \in DOMAIN infos : HasTimeSegment(infos[k])}
WeeksCarriers(infos) ==
    {k \in TimeCarriers(infos) :
        Find(infos[k], S_JieParen) + ByteLen(S_JieParen) < ByteLen(infos[k])}
StartCarriers(infos) == {k \in DOMAIN infos : FieldsOf(infos[k]).start_section >= 0}
EndCarriers(infos) == {k \in DOMAIN infos : FieldsOf(infos[k]).end_section >= 0}
TeacherCarriers(infos) == {k \in DOMAIN infos : Contains(infos[k], S_Teacher)}
LocationCarriers(infos) == {k \in DOMAIN infos : Contains(infos[k], S_Location)}

\* C1 (as claimed): every Course of the result has start_section and
\* end_section in 1..12.
C1_SectionsInRange ==
    \A k \in 1..Len(courses) :
        courses[k].start_section \in 1..12 /\ courses[k].end_section \in 1..12

\* C2: the N-th block collected since the last period-marker-shaped line has
\* day ((N-1) mod 7) + 1, every Course has a day in 1..7, and a
\* period-marker-shaped line restarts the count.
C2_DayPeriodic ==
    /\ [](/\ \A n \in 1..Len(courses_in_section) :
                courses_in_section[n][1] = ((n - 1) % 7) + 1
          /\ \A k \in 1..Len(courses) : courses[k].day_of_week \in 1..7)
    /\ [][(/\ pc = "scan" /\ pc' = "scan"
           /\ i < Len(lines)
           /\ Trim(lines[i + 1]) # <<>>
           /\ IsMarkerShape(Trim(lines[i + 1])))
          => courses_in_section' = <<>>]_vars

\* C2 witness: an eighth block of a section, whose day is 1 again
C2_Witness ==
    /\ Len(courses_in_section) >= 8
    /\ courses_in_section[7][1] = 7
    /\ courses_in_section[8][1] = 1

\* C3 (as claimed): no input makes the parse abort part-way through.
C3_NeverPanics == pc # "panicked"

\* C4 (as claimed): each field of a Course is the one of the first metadata
\* line of its block that carries it.
C4_FirstLineWins ==
    LastBlockEmitted =>
        LET infos == LastInfos
            first(S) == FieldsOf(infos[Min(S)])
        IN /\ TimeCarriers(infos) # {} =>
                LastCourse.time_slot = first(TimeCarriers(infos)).time_slot
           /\ StartCarriers(infos) # {} =>
                LastCourse.start_section = first(StartCarriers(infos)).start_section
           /\ EndCarriers(infos) # {} =>
                LastCourse.end_section = first(EndCarriers(infos)).end_section
           /\ WeeksCarriers(infos) # {} =>
                LastCourse.weeks = first(WeeksCarriers(infos)).weeks
           /\ TeacherCarriers(infos) # {} =>
                LastCourse.teacher = first(TeacherCarriers(infos)).teacher
           /\ LocationCarriers(infos) # {} =>
                LastCourse.location = first(LocationCarriers(infos)).location

\* C4 (amended): each field of a Course is the one of the last metadata line
\* of its block that carries it: time_slot of the last line with a time-slot
\* segment, weeks of the last such line with text after the segment,
\* start_section and end_section of the last line whose number parses,
\* teacher and location of the last line with the label; a field no line
\* carries keeps its initial value.
C4_LastLineWins ==
    LastBlockEmitted =>
        LET infos == LastInfos
            last(S) == FieldsOf(infos[Max(S)])
        IN /\ LastCourse.time_slot =
                IF TimeCarriers(infos) = {} THEN <<>> ELSE last(TimeCarriers(infos)).time_slot
           /\ LastCourse.start_section =
                IF StartCarriers(infos) = {} THEN current_section
                ELSE last(StartCarriers(infos)).start_section
           /\ LastCourse.end_section =
                IF EndCarriers(infos) = {} THEN current_section
                ELSE last(EndCarriers(infos)).end_section
           /\ LastCourse.weeks =
                IF WeeksCarriers(infos) = {} THEN <<>> ELSE last(WeeksCarriers(infos)).weeks
           /\ LastCourse.teacher =
                IF TeacherCarriers(infos) = {} THEN <<>>
                ELSE last(TeacherCarriers(infos)).teacher
           /\ LastCourse.location =
                IF LocationCarriers(infos) = {} THEN <<>>
                ELSE last(LocationCarriers(infos)).location

\* C4 witness: a block with two lines that carry different teachers and
\* different time slots, whose Course has those of the later line
C4_Witness ==
    /\ LastBlockEmitted
    /\ \E k1, k2 \in DOMAIN LastInfos :
          /\ k1 < k2
          /\ {k1, k2} \subseteq TeacherCarriers(LastInfos)
          /\ FieldsOf(LastInfos[k1]).teacher # FieldsOf(LastInfos[k2]).teacher
          /\ LastCourse.teacher = FieldsOf(LastInfos[k2]).teacher
          /\ LastCourse.teacher # FieldsOf(LastInfos[k1]).teacher

\* C5 (as claimed): while the metadata loop runs, a non-empty student_name
\* is never replaced by an empty one, nor a non-empty student_id.
C5_NonEmptyKept ==
    [][/\ student_name # <<>> => student_name' # <<>>
       /\ student_id # <<>> => student_id' # <<>>]_vars

\* the lines among the first n that contain both xue nian di and xue qi
Qualifying(n) ==
    {k \in 1..n : Contains(lines[k], S_XueNianDi) /\ Contains(lines[k], S_XueQi)}

\* the number of lines the metadata loop has read
LinesRead == IF pc = "meta" THEN i ELSE Len(lines)

\* C6 (as claimed): the semester is the one extracted from the first
\* qualifying line, and empty when no line qualifies.
C6_FirstSemesterWins ==
    pc \in {"scan", "done"} =>
        semester = IF Qualifying(Len(lines)) = {} THEN <<>>
                   ELSE extract_semester(lines[Min(Qualifying(Len(lines)))])

\* C6 (amended): the semester is the one extracted from the last qualifying
\* line read so far (empty when that line yields none), and empty when no
\* line qualifies.
C6_LastSemesterWins ==
    pc # "panicked" =>
        semester = IF Qualifying(LinesRead) = {} THEN <<>>
                   ELSE extract_semester(lines[Max(Qualifying(LinesRead))])

\* C6 witness: two qualifying lines with different semesters, the result
\* holding the later one
C6_Witness ==
    /\ pc = "done"
    /\ \E k1, k2 \in Qualifying(Len(lines)) :
          /\ k1 < k2
          /\ k2 = Max(Qualifying(Len(lines)))
          /\ extract_semester(lines[k1]) # <<>>
          /\ extract_semester(lines[k2]) # <<>>
          /\ extract_semester(lines[k1]) # extract_semester(lines[k2])
          /\ semester = extract_semester(lines[k2])

\* the name a name line shows: no glyph, no surrounding whitespace
ShownName(first) == Trim(SelectSeq(first, LAMBDA c : c # 9733 /\ c # 9650))

\* the last block is a name line and the one metadata line l
LastBlockIs(l) ==
    LastBlockEmitted /\ Len(LastBlockLines) = 2 /\ LastBlockLines[2] = Trim(l)

\* C7 (as claimed): a metadata line "(a-b" jie ")W/teacher: T/venue: L"
\* yields time_slot "a-b", start_section a, end_section b, weeks W, teacher
\* T and location L trimmed, and the name of the first line.
C7_FormFieldsBare ==
    \A a \in FormNums, b \in FormNums, W \in FormWeeks, T \in FormTeachers,
       L \in FormLocations :
        LastBlockIs(FormLine(a, b, W, T, L)) =>
            /\ LastCourse.time_slot = a \o <<45>> \o b
            /\ LastCourse.start_section = DigitsValue(a, 0)
            /\ LastCourse.end_section = DigitsValue(b, 0)
            /\ LastCourse.weeks = Trim(W)
            /\ LastCourse.teacher = Trim(T)
            /\ LastCourse.location = Trim(L)
            /\ LastCourse.name = ShownName(LastBlockLines[1])

\* C7 (amended): the same line yields time_slot "a-b" followed by the
\* period-unit glyph, start_section a and end_section b when the number is
\* at most 255 and the ambient period otherwise; weeks, teacher, location and
\* name as claimed.
C7_FormFieldsWithGlyph ==
    \A a \in FormNums, b \in FormNums, W \in FormWeeks, T \in FormTeachers,
       L \in FormLocations :
        LastBlockIs(FormLine(a, b, W, T, L)) =>
            /\ LastCourse.time_slot = a \o <<45>> \o b \o S_Jie
            /\ LastCourse.start_section =
                  IF DigitsValue(a, 0) <= 255 THEN DigitsValue(a, 0) ELSE current_section
            /\ LastCourse.end_section =
                  IF DigitsValue(b, 0) <= 255 THEN DigitsValue(b, 0) ELSE current_section
            /\ LastCourse.weeks = Trim(W)
            /\ LastCourse.teacher = Trim(T)
            /\ LastCourse.location = Trim(L)
            /\ LastCourse.name = ShownName(LastBlockLines[1])

\* C7 witness: the line "(12-1" jie ") 6" zhou " /teacher: " zhang " /venue: B",
\* parsed with the spaces trimmed
C7_Witness ==
    /\ LastBlockIs(FormLine(<<49, 50>>, <<49>>, <<32, 54, 21608, 32>>, <<24352, 32>>,
                            <<66, 32>>))
    /\ LastCourse.time_slot = <<49, 50, 45, 49, 33410>>
    /\ LastCourse.start_section = 12
    /\ LastCourse.end_section = 1
    /\ LastCourse.weeks = <<54, 21608>>
    /\ LastCourse.teacher = <<24352>>
    /\ LastCourse.location = <<66>>

\* the parts of a time-slot text before and after its first dash
DashAt(X) == FindPos(X, <<45>>)
LeftOf(X) == SubSeq(X, 1, DashAt(X) - 1)
RightOf(X) == SubSeq(X, DashAt(X) + 1, Len(X))
\* the text yields two parseable numbers
TwoNumbers(X) == DashAt(X) # 0 /\ ParseU8(LeftOf(X)) >= 0 /\ ParseU8(RightOf(X)) >= 0
\* name, weeks, teacher and location of a block whose metadata line is a SlotLine
SlotOtherFields ==
    /\ LastCourse.name = ShownName(LastBlockLines[1])
    /\ LastCourse.weeks = <<54, 21608>>
    /\ LastCourse.teacher = <<24352>>
    /\ LastCourse.location = <<>>

\* C8 (as claimed): a time-slot segment that does not yield two parseable
\* numbers leaves both bounds at the ambient period; the other fields are
\* extracted.
C8_BothBoundsAmbient ==
    \A X \in SlotTexts :
        LastBlockIs(SlotLine(X)) /\ ~TwoNumbers(X) =>
            /\ LastCourse.start_section = current_section
            /\ LastCourse.end_section = current_section
            /\ SlotOtherFields

\* C8 (amended): in a block with one metadata line, each bound whose part of
\* the time-slot segment does not parse (or that has no dash to delimit it)
\* is the ambient period, and a bound whose part parses is that number, also
\* when the other part does not parse; the other fields are extracted.
C8_EachBoundAmbient ==
    \A X \in SlotTexts :
        LastBlockIs(SlotLine(X)) =>
            /\ LastCourse.start_section =
                  IF DashAt(X) # 0 /\ ParseU8(LeftOf(X)) >= 0
                     THEN ParseU8(LeftOf(X)) ELSE current_section
            /\ LastCourse.end_section =
                  IF DashAt(X) # 0 /\ ParseU8(RightOf(X)) >= 0
                     THEN ParseU8(RightOf(X)) ELSE current_section
            /\ SlotOtherFields

\* C8 witness: "(3-x" jie ")..." under ambient period 2: start 3, end 2
C8_Witness ==
    /\ LastBlockIs(SlotLine(<<51, 45, 120>>))
    /\ current_section = 2
    /\ LastCourse.start_section = 3
    /\ LastCourse.end_section = 2
    /\ LastCourse.teacher = <<24352>>

\* the blocks of the last section whose name line shows a name
NamedBlocks ==
    SelectSeq(courses_in_section, LAMBDA b : ShownName(TextLines(b[2])[1]) # <<>>)

\* C9: no Course has an empty name, and after the final flush every block
\* of the last section with a name has its own Course, in order, with the
\* fields of that block alone.
C9_NoEmptyName ==
    /\ \A k \in 1..Len(courses) : courses[k].name # <<>>
    /\ pc = "done" =>
          /\ Len(courses) >= Len(NamedBlocks)
          /\ \A k \in 1..Len(NamedBlocks) :
                courses[Len(courses) - Len(NamedBlocks) + k] =
                    extract_course_from_full_text(NamedBlocks[k][2], NamedBlocks[k][1],
                                                  current_section).course

\* C9 witness: a block with an empty name between two blocks with a name,
\* both of which have their Course
C9_Witness ==
    /\ pc = "done"
    /\ \E k \in 2..(Len(courses_in_section) - 1) :
          /\ ShownName(TextLines(courses_in_section[k][2])[1]) = <<>>
          /\ ShownName(TextLines(courses_in_section[k - 1][2])[1]) # <<>>
          /\ ShownName(TextLines(courses_in_section[k + 1][2])[1]) # <<>>
    /\ Len(courses) = Len(courses_in_section) - 1
    /\ Len(courses) >= 2

\* no line trimmed equals Monday's token
NoMonday == \A k \in 1..Len(lines) : Trim(lines[k]) # days[1]

\* C10: with no line that trimmed equals Monday's token, the step after the
\* metadata loop ends the parse with an empty courses list and leaves
\* student_name, student_id and semester as the loop left them.
C10_NoHeaderNoCourses ==
    [][(pc = "meta" /\ i >= Len(lines) /\ NoMonday)
       => /\ pc' = "done"
          /\ courses' = <<>>
          /\ UNCHANGED <<student_name, student_id, semester>>]_vars

\* C10 witness: a finished parse of an input without header that has a
\* glyph line, a weekday token other than Monday's and metadata
C10_Witness ==
    /\ pc = "done"
    /\ NoMonday
    /\ \E k \in 1..Len(lines) : Contains(lines[k], S_Star)
    /\ \E k \in 1..Len(lines) : Contains(lines[k], days[1])
    /\ student_name # <<>>
    /\ student_id # <<>>
    /\ courses = <<>>

\* the input is the one line l, and the metadata loop has read it
ReadOnly(l) == lines = <<l>> /\ i >= 1 /\ pc # "panicked"

\* C11 (as claimed): for a line N + ke biao + " " + xue hao + colon + D, with
\* either colon, extract_student_info returns name N and id D, which the
\* metadata loop stores; for a line N + ke biao the name is N and the id is
\* empty.
C11_NameAndId ==
    /\ \A N \in IdNames, c \in IdColons, D \in IdDigits :
          ReadOnly(IdLine(N, c, D)) =>
              /\ extract_student_info(lines[1]) =
                    [panic |-> FALSE, some |-> TRUE, name |-> N, id |-> D]
              /\ student_name = N
              /\ student_id = D
    /\ \A N \in IdNames :
          ReadOnly(NameLine(N)) =>
              /\ extract_student_info(lines[1]) =
                    [panic |-> FALSE, some |-> TRUE, name |-> N, id |-> <<>>]
              /\ student_name = N
              /\ student_id = <<>>

\* the position of the first digit of a line, and of the first xue qi at or
\* after position d; 0 when there is none
FirstDigit(l) ==
    IF \E k \in 1..Len(l) : IsNumeric(l[k])
       THEN Min({k \in 1..Len(l) : IsNumeric(l[k])}) ELSE 0
XueQiFrom(l, d) ==
    LET hits == {k \in d..(Len(l) - 1) : l[k] = S_XueQi[1] /\ l[k + 1] = S_XueQi[2]}
    IN IF hits = {} THEN 0 ELSE Min(hits)
\* the text from the first digit to the end of the first xue qi after it
SemesterSpan(l) ==
    IF FirstDigit(l) = 0 \/ XueQiFrom(l, FirstDigit(l)) = 0 THEN <<>>
    ELSE SubSeq(l, FirstDigit(l), XueQiFrom(l, FirstDigit(l)) + 1)

\* C12: extract_semester returns the text from the first digit of the line
\* to the end of the first xue qi after it, whatever precedes the digit or
\* follows that xue qi, and the empty string when there is no digit or no
\* xue qi after it; the metadata loop stores it for a qualifying line.
C12_SemesterSpan ==
    /\ \A k \in 1..Len(lines) : extract_semester(lines[k]) = SemesterSpan(lines[k])
    /\ (/\ Len(lines) = 1 /\ i >= 1 /\ pc # "panicked"
        /\ Contains(lines[1], S_XueNianDi) /\ Contains(lines[1], S_XueQi))
       => semester = SemesterSpan(lines[1])

\* C12 witness: a line read by the loop with a xue qi before its first
\* digit and text after the semester, of which the semester is a proper part
C12_Witness ==
    /\ pc = "done"
    /\ Len(lines) = 1
    /\ FirstDigit(lines[1]) > 1
    /\ FindPos(lines[1], S_XueQi) < FirstDigit(lines[1])
    /\ XueQiFrom(lines[1], FirstDigit(lines[1])) + 1 < Len(lines[1])
    /\ semester # <<>>
    /\ semester = SemesterSpan(lines[1])

\* the cursor is on a period-marker-shaped line while scanning
AtMarker ==
    /\ pc = "scan"
    /\ i < Len(lines)
    /\ Trim(lines[i + 1]) # <<>>
    /\ IsMarkerShape(Trim(lines[i + 1]))

\* C13: when a period-marker-shaped line is processed, the blocks
\* accumulated since the previous marker are emitted, in order after the
\* courses already there, each parsed with the ambient period as it was
\* before that line; the accumulator is emptied; the marker's own value is
\* not applied to them.  (A step whose flush panics emits nothing.)
C13_FlushWithOldPeriod ==
    [][(AtMarker /\ pc' = "scan") =>
          /\ courses_in_section' = <<>>
          /\ Len(courses') = Len(courses) + Len(NamedBlocks)
          /\ SubSeq(courses', 1, Len(courses)) = courses
          /\ \A k \in 1..Len(NamedBlocks) :
                /\ courses'[Len(courses) + k] =
                      extract_course_from_full_text(NamedBlocks[k][2], NamedBlocks[k][1],
                                                    current_section).course
                /\ Len(TextLines(NamedBlocks[k][2])) = 1 =>
                      /\ courses'[Len(courses) + k].start_section = current_section
                      /\ courses'[Len(courses) + k].end_section = current_section]_vars

\* C13 witness: a marker with a value in range has just been processed, the
\* accumulator is empty, and the last course, from a block of one line
\* collected under period 1, has period 1 and not the marker's value 2
C13_Witness ==
    /\ pc = "scan"
    /\ Len(lines) >= 4
    /\ i >= 4
    /\ lines[2] = L_One
    /\ lines[i] = L_Two
    /\ lines[i - 1] = L_Course
    /\ current_section = 2
    /\ courses_in_section = <<>>
    /\ courses # <<>>
    /\ LastCourse.start_section = 1
    /\ LastCourse.end_section = 1

\* the decimal value of a line of one to three ASCII digits, -1 for any
\* other line
MarkerValue(l) ==
    IF Len(l) \notin 1..3 \/ \E k \in 1..Len(l) : l[k] \notin 48..57 THEN -1
    ELSE IF Len(l) = 1 THEN l[1] - 48
    ELSE IF Len(l) = 2 THEN 10 * (l[1] - 48) + (l[2] - 48)
    ELSE 100 * (l[1] - 48) + 10 * (l[2] - 48) + (l[3] - 48)

\* C14: the ambient period changes only in a step that processes a
\* period-marker-shaped line, and then to that line's value, which lies in
\* 1..12; a marker-shaped line whose value is outside 1..12 or that does not
\* parse leaves it as it was, and so does every other step.
C14_PeriodOnlyAtMarkers ==
    [][/\ current_section' # current_section =>
             /\ AtMarker
             /\ MarkerValue(Trim(lines[i + 1])) \in 1..12
             /\ current_section' = MarkerValue(Trim(lines[i + 1]))
       /\ (AtMarker /\ pc' = "scan" /\ MarkerValue(Trim(lines[i + 1])) \in 1..12) =>
             current_section' = MarkerValue(Trim(lines[i + 1]))
       /\ ~AtMarker => current_section' = current_section]_vars

\* C14 witness: under period 1 the markers 13 and U+2460 have been
\* processed, as have a course start and a noise line, and the period is 1
C14_Witness ==
    /\ pc = "scan"
    /\ Len(lines) >= 6
    /\ i = Len(lines)
    /\ lines[2] = L_One
    /\ \E k \in 4..Len(lines) : lines[k] = L_Thirteen
    /\ \E k \in 4..Len(lines) : lines[k] = L_Circled
    /\ \E k \in 4..Len(lines) : lines[k] = S_Morning
    /\ current_section = 1

\* the number of lines up to the end of the weekday run; Len(lines) when
\* there is no header
ScanStart ==
    IF HeaderIdx(lines) < 0 THEN Len(lines)
    ELSE HeaderIdx(lines) + DayCount(lines, HeaderIdx(lines), 0)

\* a line that starts a block: it has a course-leading glyph, is not a
\* theory-hour annotation and has no noise token
IsStartLine(l) ==
    /\ \E k \in 1..Len(l) : l[k] \in {9733, 9650}
    /\ ~Contains(l, S_Theory)
    /\ ~IsNoise(l)

\* the positions, in input order, of the block starts with a name among
\* the lines after the header run and before the cursor
StartsRead ==
    SelectSeq([k \in 1..Len(lines) |-> k],
              LAMBDA k : /\ k > ScanStart
                         /\ k <= i
                         /\ IsStartLine(Trim(lines[k]))
                         /\ ShownName(Trim(lines[k])) # <<>>)
\* their names
NamesRead == [n \in 1..Len(StartsRead) |-> ShownName(Trim(lines[StartsRead[n]]))]
\* the names of the courses emitted and of the named blocks still accumulated
NamesEmitted == [n \in 1..Len(courses) |-> courses[n].name]
NamesHeld == [n \in 1..Len(NamedBlocks) |-> ShownName(TextLines(NamedBlocks[n][2])[1])]

\* C15: every block collected is parsed exactly once, at a marker or at the
\* end of input, and the courses are in the order of their blocks: while
\* scanning, the courses emitted followed by the named blocks still held are
\* the block starts read so far, one for one and in input order; when the
\* parse returns, the courses alone are all the block starts of the input.
C15_EachBlockOnceInOrder ==
    /\ pc = "scan" => NamesEmitted \o NamesHeld = NamesRead
    /\ pc = "done" => NamesEmitted = NamesRead

\* C15 witness: the parse has returned at least three courses, some emitted
\* at a marker and the others, still in the accumulator, at the end of input
C15_Witness ==
    /\ pc = "done"
    /\ Len(courses) >= 3
    /\ NamedBlocks # <<>>
    /\ Len(courses) > Len(NamedBlocks)
    /\ \E a, b \in 1..Len(courses) : courses[a].name # courses[b].name

\* a line with a course-leading glyph
HasGlyph(l) == \E k \in 1..Len(l) : l[k] \in {9733, 9650}
\* a line with a time-of-day label
HasDayPart(l) ==
    Contains(l, S_Morning) \/ Contains(l, S_Afternoon) \/ Contains(l, S_Evening)
\* a line that ends a block
EndsBlock(l) == l # <<>> /\ (HasGlyph(l) \/ IsMarkerShape(l) \/ HasDayPart(l))
\* the position of the first terminator after the line at position s;
\* Len(lines) + 1 when there is none
BlockEnd(s) ==
    LET ends == {k \in (s + 1)..Len(lines) : EndsBlock(Trim(lines[k]))}
    IN IF ends = {} THEN Len(lines) + 1 ELSE Min(ends)
\* the trimmed non-blank lines from position s up to the terminator
BlockLines(s) ==
    SelectSeq([k \in 1..(BlockEnd(s) - s) |-> Trim(lines[s + k - 1])], LAMBDA l : l # <<>>)
\* the cursor is on a line that starts a block
AtStart == pc = "scan" /\ i < Len(lines) /\ IsStartLine(Trim(lines[i + 1]))
\* the last block of the accumulator, before and after the step
HeldLast == courses_in_section[Len(courses_in_section)]
HeldLastAfter == courses_in_section'[Len(courses_in_section')]
\* the block at the cursor is collected: it joins the accumulator as the
\* start line and the non-blank lines up to the terminator, and the cursor
\* stops on the terminator
CollectsBlock ==
    /\ Len(courses_in_section') = Len(courses_in_section) + 1
    /\ SubSeq(courses_in_section', 1, Len(courses_in_section)) = courses_in_section
    /\ HeldLastAfter[2] = JoinLines(BlockLines(i + 1))
    /\ i' = BlockEnd(i + 1) - 1
    /\ i' > i
\* the cursor is on the terminator of the block collected last
OnTerminator ==
    /\ pc = "scan"
    /\ i < Len(lines)
    /\ courses_in_section # <<>>
    /\ \E s \in (ScanStart + 1)..i :
          /\ IsStartLine(Trim(lines[s]))
          /\ BlockEnd(s) = i + 1
          /\ HeldLast[2] = JoinLines(BlockLines(s))
\* the line at the cursor, trimmed
CursorLine == Trim(lines[i + 1])
\* the step skips the line at the cursor and nothing else changes
SkipsLine == i' = i + 1 /\ UNCHANGED <<pc, courses, current_section, courses_in_section>>
\* the step flushes the accumulator
FlushesHeld ==
    /\ courses_in_section' = <<>>
    /\ Len(courses') = Len(courses) + Len(NamedBlocks)
    /\ i' = i + 1

\* C16 (as claimed): a block is its start line and every later non-blank
\* line before the first terminator; blank lines neither end it nor join
\* it; the cursor resumes on the terminator, and a terminating glyph line
\* then starts the next block, a terminating marker triggers the flush.
C16_GlyphTerminatorStartsBlock ==
    [][/\ AtStart => CollectsBlock
       /\ (OnTerminator /\ HasGlyph(CursorLine)) =>
             CollectsBlock /\ TextLines(HeldLastAfter[2])[1] = CursorLine
       /\ (OnTerminator /\ IsMarkerShape(CursorLine) /\ pc' = "scan") => FlushesHeld]_vars

\* C16 (amended): as claimed, except that a terminating glyph line starts
\* the next block only when it is a course start; a theory-hour annotation
\* or a glyph line with a noise token ends the block and is then skipped,
\* as is a terminating time-of-day label.
C16_TerminatorReclassified ==
    [][/\ AtStart => CollectsBlock
       /\ (OnTerminator /\ IsStartLine(CursorLine)) =>
             CollectsBlock /\ TextLines(HeldLastAfter[2])[1] = CursorLine
       /\ (OnTerminator /\ HasGlyph(CursorLine) /\ ~IsStartLine(CursorLine)) => SkipsLine
       /\ (OnTerminator /\ HasDayPart(CursorLine)) => SkipsLine
       /\ (OnTerminator /\ IsMarkerShape(CursorLine) /\ pc' = "scan") => FlushesHeld]_vars

\* C16 witness: a block has been collected over a blank line and the cursor
\* is on its terminator, a theory-hour annotation
C16_Witness ==
    /\ OnTerminator
    /\ CursorLine = L_TheoryNote
    /\ i >= 2
    /\ Trim(lines[i]) = <<>>
    /\ TextLines(HeldLast[2]) = <<L_Course>>

\* the cursor is on a non-blank line while scanning and the step returns
ScansLine == pc = "scan" /\ i < Len(lines) /\ CursorLine # <<>> /\ pc' # "panicked"
\* at most three characters, every one numeric
ShortNumeric(l) == Len(l) <= 3 /\ \A k \in 1..Len(l) : IsNumeric(l[k])

\* C17 (as claimed): a trimmed non-empty line is handled as a period marker
\* exactly when it has at most 3 characters and every character is numeric,
\* non-ASCII digits included: such a line flushes the accumulator and sets
\* the period when its value is in 1..12; any other line flushes nothing
\* and leaves the period alone, and when it has no glyph and no noise token
\* it is skipped as filler.
C17_MarkerByCharacters ==
    [][ScansLine =>
          IF ShortNumeric(CursorLine)
             THEN /\ FlushesHeld
                  /\ current_section' =
                        IF MarkerValue(CursorLine) \in 1..12 THEN MarkerValue(CursorLine)
                        ELSE current_section
             ELSE /\ courses' = courses
                  /\ current_section' = current_section
                  /\ (~HasGlyph(CursorLine) /\ ~IsNoise(CursorLine)) => SkipsLine]_vars

\* C18: the segmenter terminates.  Every step of the scan that goes on
\* moves the cursor to a strictly larger line index, at most the number of
\* lines; a block collection moves it by at least one line; the scan ends
\* only with the cursor at the number of lines, by the final flush, after
\* which there is no further step, so that the final flush runs once; and
\* every parse ends.
C18_Terminates ==
    /\ [][/\ (pc = "scan" /\ pc' = "scan") => (i' > i /\ i' <= Len(lines))
          /\ AtStart => i' >= i + 1
          /\ (pc = "scan" /\ pc' = "done") => (i = Len(lines) /\ i' = i)
          /\ (pc = "scan" /\ i < Len(lines)) => pc' # "done"
          /\ ~Ended]_vars
    /\ <>Ended

\* C18 witness: the parse has returned after a scan of at least four lines
\* with a collected block of two lines, a marker and a noise line, the
\* final flush having emitted a course
C18_Witness ==
    /\ pc = "done"
    /\ HeaderIdx(lines) >= 0
    /\ i = Len(lines)
    /\ i >= ScanStart + 4
    /\ \E k \in 1..Len(lines) : k > ScanStart /\ IsMarkerShape(Trim(lines[k])) /\ lines[k] # <<>>
    /\ \E k \in 1..Len(lines) : k > ScanStart /\ IsNoise(Trim(lines[k]))
    /\ NamedBlocks # <<>>
    /\ Len(TextLines(HeldLast[2])) >= 2
    /\ courses # <<>>

\* the position of the first line that trimmed equals Monday's token; 0 when
\* there is none
HeaderPos ==
    IF \E k \in 1..Len(lines) : Trim(lines[k]) = days[1]
       THEN Min({k \in 1..Len(lines) : Trim(lines[k]) = days[1]}) ELSE 0
\* n lines from the header on match the first n weekday tokens in order
RunOf(n) ==
    \A k \in 0..(n - 1) :
        HeaderPos + k <= Len(lines) /\ Trim(lines[HeaderPos + k]) = days[k + 1]
\* the width of the weekday run: the largest such n
RunWidth == Max({n \in 1..Len(days) : RunOf(n)})
\* the position of the last line of the run
RunEnd == HeaderPos + RunWidth - 1
\* the block starts with a name and the marker values after the run
StartsAfterRun ==
    {k \in (RunEnd + 1)..Len(lines) :
        IsStartLine(Trim(lines[k])) /\ ShownName(Trim(lines[k])) # <<>>}
ValuesAfterRun == {MarkerValue(Trim(lines[k])) : k \in (RunEnd + 1)..Len(lines)}
\* nothing has been collected or emitted and no period is set
NothingYet == courses = <<>> /\ courses_in_section = <<>> /\ current_section = 0

\* C19: segmentation starts at the line immediately after the weekday run.
\* The header is the first line that trimmed equals Monday's token and the
\* run is the 1..7 consecutive lines from there that match the weekday
\* tokens in order; the scan is entered with the cursor just after the run
\* and with nothing collected; the courses returned come only from block
\* starts after the run and the ambient period only from markers after it.
C19_ScanStartsAfterRun ==
    /\ [](pc = "meta" => NothingYet)
    /\ [](pc = "scan" => (HeaderPos > 0 /\ RunWidth \in 1..7 /\ i >= RunEnd))
    /\ []((pc = "scan" /\ i = RunEnd) => NothingYet)
    /\ [][(pc = "meta" /\ pc' = "scan") => (HeaderPos > 0 /\ i' = RunEnd)]_vars
    /\ []((pc \in {"scan", "done"} /\ HeaderPos > 0) =>
             /\ Len(courses) <= Cardinality(StartsAfterRun)
             /\ current_section \in {0} \cup ValuesAfterRun)
    /\ []((pc = "done" /\ HeaderPos > 0) => Len(courses) = Cardinality(StartsAfterRun))

\* C19 witness: a marker and a course start precede the header, the run has
\* all seven tokens, a marker 2 and a course start follow it, and the parse
\* has returned that one course with period 2
C19_Witness ==
    /\ pc = "done"
    /\ HeaderPos = 3
    /\ lines[1] = L_One
    /\ lines[2] = L_Course
    /\ RunWidth = 7
    /\ Len(lines) = RunEnd + 2
    /\ Len(courses) = 1
    /\ courses[1].name = ShownName(L_CourseB)
    /\ courses[1].start_section = 2
    /\ current_section = 2

====
